---- MODULE Spec2Model ----
(***************************************************************************)
(* A model of the Imitation Game engine (src/imitgame/game.py): the        *)
(* construction of the participants, the conversation loop, the voting     *)
(* loop, the vote parser and the tally of play.                            *)
(*                                                                         *)
(* A Python str is a sequence of text fragments whose concatenation is the *)
(* string.  Everything a provider returns (replies, vote responses) is     *)
(* written one character per fragment, so that strip, the regular          *)
(* expressions and json.loads of _parse_vote are computed character by     *)
(* character.  The engine's own prompt texts are never scanned by the      *)
(* engine and are kept as longer fragments.                                *)
(***************************************************************************)
EXTENDS Integers, Sequences, FiniteSets, TLC

(***************************************************************************)
(* Bounds of the model.                                                    *)
(***************************************************************************)
MaxProviders == 2
MaxTurns == 1
MaxMembers == 2
MaxVotes == 3

(***************************************************************************)
(* Characters.                                                             *)
(***************************************************************************)
\* str.strip(), \s of re and the whitespace of json, on the model's alphabet
WS == {" ", "\n"}
\* \d of re, and the digits of a JSON number
Digit == {"0", "1", "2", "3", "4", "5", "6", "7", "8", "9"}
\* characters json's strict string scanner rejects inside a string literal
\* (control characters) or treats as the start of an escape (the model's
\* inputs hold no backslash, so an escape never has to be decoded)
BadInString == {"\n", "\\"}

Min(a, b) == IF a <= b THEN a ELSE b

\* s[p:p+len(lit)] == lit
HasAt(s, p, lit) ==
    /\ p >= 1
    /\ p + Len(lit) - 1 <= Len(s)
    /\ \A k \in 1..Len(lit) : s[p + k - 1] = lit[k]

\* lit in s
Contains(s, lit) == \E p \in 1..Len(s) : HasAt(s, p, lit)

\* the end of a greedy \s* (or of json's whitespace skip) started at p
RECURSIVE SkipWs(_, _)
SkipWs(s, p) ==
    IF p >= 1 /\ p <= Len(s) /\ s[p] \in WS THEN SkipWs(s, p + 1) ELSE p

\* the end of a greedy \d* started at p
RECURSIVE SkipDigits(_, _)
SkipDigits(s, p) ==
    IF p >= 1 /\ p <= Len(s) /\ s[p] \in Digit THEN SkipDigits(s, p + 1) ELSE p

\* the first position >= p holding a character of set cs, Len(s)+1 if none
RECURSIVE FindIn(_, _, _)
FindIn(s, p, cs) ==
    IF p > Len(s) \/ (p >= 1 /\ s[p] \in cs) THEN p ELSE FindIn(s, p + 1, cs)

\* the last position <= p holding a character outside WS, 0 if none
RECURSIVE LastNonWs(_, _)
LastNonWs(s, p) ==
    IF p = 0 \/ s[p] \notin WS THEN p ELSE LastNonWs(s, p - 1)

\* str.strip()
Strip(s) == SubSeq(s, SkipWs(s, 1), LastNonWs(s, Len(s)))

\* the decimal digits of a natural number, as str(i) gives them
RECURSIVE Decimal(_)
Decimal(i) ==
    LET d == <<"0", "1", "2", "3", "4", "5", "6", "7", "8", "9">>[(i % 10) + 1]
    IN  IF i < 10 THEN <<d>> ELSE Decimal(i \div 10) \o <<d>>

(***************************************************************************)
(* Literal texts of the source.                                            *)
(***************************************************************************)
Quote == <<"\"">>
\* the backquote character, which a TLA+ string literal cannot hold
BQ == "BACKQUOTE"
Fence == <<BQ, BQ, BQ>>
JsonTag == <<"j", "s", "o", "n">>
ActorWord == <<"A", "c", "t", "o", "r", " ">>
VoteKey == <<"\"", "v", "o", "t", "e", "\"">>
ReasoningKey == <<"\"", "r", "e", "a", "s", "o", "n", "i", "n", "g", "\"">>
UnknownText == <<"U", "n", "k", "n", "o", "w", "n">>
ParseErrorText == <<"P", "a", "r", "s", "e", " ", "E", "r", "r", "o", "r">>
CouldNotExtract == <<"Could not extract vote from response">>
ExtractedPrefix == <<"(extracted from: ">>
ExtractedSuffix == <<"...)">>
ExcerptLen == 100

\* f"Actor {i}"
ActorId(i) == ActorWord \o Decimal(i)

(***************************************************************************)
(* Python values, as far as the engine looks at them: the type and, for a  *)
(* str, its characters (for any other JSON value, its source text).        *)
(***************************************************************************)
PyStr(chars) == [t |-> "str", v |-> chars]
PyNone == [t |-> "NoneType", v |-> <<>>]

\* what a scan gives: whether it succeeded, the position after the value, the
\* value, and for an object its members in source order
ScanFail == [ok |-> FALSE, end |-> 0, val |-> PyNone, members |-> <<>>]
ScanOk(e, val, members) == [ok |-> TRUE, end |-> e, val |-> val, members |-> members]

(***************************************************************************)
(* json.loads, as the scanner of the json module computes it on the        *)
(* model's alphabet: objects, arrays, strings without escapes, numbers,    *)
(* null, true and false.  Each operator takes the positions found so far   *)
(* as parameters and hands on to the next.                                 *)
(***************************************************************************)
\* a string literal that opens at p and whose first quote, control character
\* or backslash after the opening is at q
StringTo(s, p, q) ==
    IF q <= Len(s) /\ s[q] = "\""
    THEN ScanOk(q + 1, PyStr(SubSeq(s, p + 1, q - 1)), <<>>)
    ELSE ScanFail

\* scanstring: s[p] is the opening quote
ScanString(s, p) == StringTo(s, p, FindIn(s, p + 1, {"\""} \cup BadInString))

\* NUMBER_RE = (-?(?:0|[1-9]\d*))(\.\d+)?([eE][-+]?\d+)?
\* the end of (?:0|[1-9]\d*) started at a, 0 if it does not match
IntEnd(s, a) ==
    IF a < 1 \/ a > Len(s) THEN 0
    ELSE IF s[a] = "0" THEN a + 1
    ELSE IF s[a] \in Digit THEN SkipDigits(s, a)
    ELSE 0

\* the end of (\.\d+)? started at b, d being where the digits after b end
FracEnd(s, b, d) == IF HasAt(s, b, <<".">>) /\ d > b + 1 THEN d ELSE b

\* where the digits of ([eE][-+]?\d+)? would start, 0 if c holds no e
ExpDigits(s, c) ==
    IF c < 1 \/ c > Len(s) \/ s[c] \notin {"e", "E"} THEN 0
    ELSE IF c + 1 <= Len(s) /\ s[c + 1] \in {"-", "+"} THEN c + 2
    ELSE c + 1

\* the end of ([eE][-+]?\d+)? started at c
ExpEnd(c, x, d) == IF x > 0 /\ d > x THEN d ELSE c

\* int(integer) when the match has no fraction and no exponent, else float
NumResult(s, p, b, e) ==
    ScanOk(e, [t |-> IF e = b THEN "int" ELSE "float", v |-> SubSeq(s, p, e - 1)], <<>>)

NumAfterFrac(s, p, b, c) ==
    NumResult(s, p, b, ExpEnd(c, ExpDigits(s, c), SkipDigits(s, ExpDigits(s, c))))

NumAfterInt(s, p, b) ==
    IF b = 0 THEN ScanFail
    ELSE NumAfterFrac(s, p, b, FracEnd(s, b, SkipDigits(s, b + 1)))

\* match_number at p, or StopIteration (the inputs hold no NaN or Infinity)
ScanNumber(s, p) ==
    NumAfterInt(s, p, IntEnd(s, IF HasAt(s, p, <<"-">>) THEN p + 1 ELSE p))

RECURSIVE ScanValue(_, _)
RECURSIVE ScanMembers(_, _, _, _)
RECURSIVE AfterKey(_, _, _, _)
RECURSIVE AfterColon(_, _, _, _, _)
RECURSIVE AfterValue(_, _, _, _, _)
RECURSIVE MemberEnd(_, _, _, _)
RECURSIVE ScanElements(_, _, _)
RECURSIVE ElementEnd(_, _, _)

\* JSONObject's loop: a member ends at e with a closing brace, or with a
\* comma and the next property name
MemberEnd(s, open, all, e) ==
    IF HasAt(s, e, <<"}">>)
    THEN ScanOk(e + 1, [t |-> "dict", v |-> SubSeq(s, open, e)], all)
    ELSE IF HasAt(s, e, <<",">>) THEN ScanMembers(s, open, SkipWs(s, e + 1), all)
    ELSE ScanFail

AfterValue(s, open, acc, key, val) ==
    IF ~val.ok THEN ScanFail
    ELSE MemberEnd(s, open, Append(acc, [key |-> key.val.v, val |-> val.val]),
                   SkipWs(s, val.end))

AfterColon(s, open, acc, key, c) ==
    IF ~HasAt(s, c, <<":">>) THEN ScanFail
    ELSE AfterValue(s, open, acc, key, ScanValue(s, SkipWs(s, c + 1)))

AfterKey(s, open, acc, key) ==
    IF ~key.ok THEN ScanFail
    ELSE AfterColon(s, open, acc, key, SkipWs(s, key.end))

\* q is where a property name must open, acc the members so far
ScanMembers(s, open, q, acc) ==
    IF ~HasAt(s, q, Quote) THEN ScanFail
    ELSE AfterKey(s, open, acc, ScanString(s, q))

\* JSONArray's loop: an element ends at e with a closing bracket or a comma
ElementEnd(s, open, e) ==
    IF HasAt(s, e, <<"]">>)
    THEN ScanOk(e + 1, [t |-> "list", v |-> SubSeq(s, open, e)], <<>>)
    ELSE IF HasAt(s, e, <<",">>) THEN ScanElements(s, open, ScanValue(s, SkipWs(s, e + 1)))
    ELSE ScanFail

\* val is the element just scanned
ScanElements(s, open, val) ==
    IF ~val.ok THEN ScanFail ELSE ElementEnd(s, open, SkipWs(s, val.end))

\* an object or array that opened at p and whose first character after the
\* opening and whitespace is at q
ObjectFrom(s, p, q) ==
    IF HasAt(s, q, <<"}">>)
    THEN ScanOk(q + 1, [t |-> "dict", v |-> SubSeq(s, p, q)], <<>>)
    ELSE ScanMembers(s, p, q, <<>>)

ArrayFrom(s, p, q) ==
    IF HasAt(s, q, <<"]">>)
    THEN ScanOk(q + 1, [t |-> "list", v |-> SubSeq(s, p, q)], <<>>)
    ELSE ScanElements(s, p, ScanValue(s, q))

\* scan_once
ScanValue(s, p) ==
    IF p < 1 \/ p > Len(s) THEN ScanFail
    ELSE IF s[p] = "\"" THEN ScanString(s, p)
    ELSE IF s[p] = "{" THEN ObjectFrom(s, p, SkipWs(s, p + 1))
    ELSE IF s[p] = "[" THEN ArrayFrom(s, p, SkipWs(s, p + 1))
    ELSE IF HasAt(s, p, <<"n", "u", "l", "l">>) THEN ScanOk(p + 4, PyNone, <<>>)
    ELSE IF HasAt(s, p, <<"t", "r", "u", "e">>)
         THEN ScanOk(p + 4, [t |-> "bool", v |-> SubSeq(s, p, p + 3)], <<>>)
    ELSE IF HasAt(s, p, <<"f", "a", "l", "s", "e">>)
         THEN ScanOk(p + 5, [t |-> "bool", v |-> SubSeq(s, p, p + 4)], <<>>)
    ELSE ScanNumber(s, p)

\* the value must be followed by whitespace only ("Extra data" otherwise)
WholeText(s, r) == IF r.ok /\ SkipWs(s, r.end) = Len(s) + 1 THEN r ELSE ScanFail

\* json.loads(s): one value between optional whitespace, or JSONDecodeError
\* (ok = FALSE)
JsonLoads(s) == WholeText(s, ScanValue(s, SkipWs(s, 1)))

\* data.get(key, default) of a dict with the given members (the last
\* occurrence of a repeated key is the one json keeps)
RECURSIVE DictGet(_, _, _)
DictGet(members, key, default) ==
    IF members = <<>> THEN default
    ELSE IF members[Len(members)].key = key THEN members[Len(members)].val
    ELSE DictGet(SubSeq(members, 1, Len(members) - 1), key, default)

(***************************************************************************)
(* The regular expressions of _parse_vote.  re.search takes the leftmost   *)
(* start at which the pattern matches; every \s* and \d+ below is followed *)
(* by a character outside its class, so its greedy end is its only end.    *)
(***************************************************************************)
NoMatch == [found |-> FALSE, from |-> 0, to |-> 0]
Match(a, b) == [found |-> TRUE, from |-> a, to |-> b]

\* the least element of a non-empty set of integers
Least(S) == CHOOSE x \in S : \A y \in S : x <= y

\* the lazy .*? of the fence pattern stops at the first of the closing braces
\* that are followed by \s*```
FenceClose(j, ends) == IF ends # {} THEN Match(j, Least(ends)) ELSE NoMatch

\* (\{.*?\})\s*``` started at j, with re.DOTALL
FenceBody(s, j) ==
    IF HasAt(s, j, <<"{">>)
    THEN FenceClose(j, {k \in (j + 1)..Len(s) :
                          s[k] = "}" /\ HasAt(s, SkipWs(s, k + 1), Fence)})
    ELSE NoMatch

\* ```(?:json)?\s*(\{.*?\})\s*``` started at i: the span of group 1
FenceMatchAt(s, i) ==
    IF ~HasAt(s, i, Fence) THEN NoMatch
    ELSE FenceBody(s, SkipWs(s, IF HasAt(s, i + 3, JsonTag) THEN i + 7 ELSE i + 3))

FenceFirst(s, starts) ==
    IF starts = {} THEN NoMatch ELSE FenceMatchAt(s, Least(starts))

\* re.search(r"```(?:json)?\s*(\{.*?\})\s*```", text, re.DOTALL)
FenceSearch(s) == FenceFirst(s, {i \in 1..Len(s) : FenceMatchAt(s, i).found})

\* \s*" started at d: the position after the quote, 0 if there is none
OpeningQuote(s, d) == IF HasAt(s, d, Quote) THEN d + 1 ELSE 0

\* :\s*" started at c
ColonQuote(s, c) ==
    IF HasAt(s, c, <<":">>) THEN OpeningQuote(s, SkipWs(s, c + 1)) ELSE 0

\* "key"\s*:\s*" started at b: the position after the opening quote of the
\* value, 0 if there is no match
KeyColonQuote(s, b, key) ==
    IF ~HasAt(s, b, key) THEN 0 ELSE ColonQuote(s, SkipWs(s, b + Len(key)))

\* ([^"]+)"[^{}]*\} where the value opens at v and its closing quote is at e
ClosedValue(s, v, e) ==
    /\ e > v
    /\ e <= Len(s)
    /\ HasAt(s, FindIn(s, e + 1, {"{", "}"}), <<"}">>)

VoteValueInObject(s, v) == v > 0 /\ ClosedValue(s, v, FindIn(s, v, {"\""}))

\* re.search(r'\{[^{}]*"vote"\s*:\s*"([^"]+)"[^{}]*\}', text) is not None
ObjectWithVote(s) ==
    \E a \in 1..Len(s) : \E b \in (a + 1)..Len(s) :
        /\ s[a] = "{"
        /\ \A k \in (a + 1)..(b - 1) : s[k] \notin {"{", "}"}
        /\ VoteValueInObject(s, KeyColonQuote(s, b, VoteKey))

\* (Actor \d+)" where the digits started after the word end at e
VoteDigits(s, v, e) ==
    IF e > v + Len(ActorWord) /\ HasAt(s, e, Quote) THEN Match(v, e - 1) ELSE NoMatch

VoteValue(s, v) ==
    IF v > 0 /\ HasAt(s, v, ActorWord)
    THEN VoteDigits(s, v, SkipDigits(s, v + Len(ActorWord)))
    ELSE NoMatch

\* "vote"\s*:\s*"(Actor \d+)" started at b: the span of group 1
VoteMatchAt(s, b) == VoteValue(s, KeyColonQuote(s, b, VoteKey))

VoteFirst(s, starts) ==
    IF starts = {} THEN NoMatch ELSE VoteMatchAt(s, Least(starts))

\* re.search(r'"vote"\s*:\s*"(Actor \d+)"', text)
VoteSearch(s) == VoteFirst(s, {b \in 1..Len(s) : VoteMatchAt(s, b).found})

ReasoningEnd(s, v, e) == IF e <= Len(s) THEN Match(v, e - 1) ELSE NoMatch

ReasoningValue(s, v) ==
    IF v > 0 THEN ReasoningEnd(s, v, FindIn(s, v, {"\""})) ELSE NoMatch

\* "reasoning"\s*:\s*"([^"]*)" started at b: the span of group 1
ReasoningMatchAt(s, b) == ReasoningValue(s, KeyColonQuote(s, b, ReasoningKey))

ReasoningFirst(s, starts) ==
    IF starts = {} THEN NoMatch ELSE ReasoningMatchAt(s, Least(starts))

\* re.search(r'"reasoning"\s*:\s*"([^"]*)"', text)
ReasoningSearch(s) ==
    ReasoningFirst(s, {b \in 1..Len(s) : ReasoningMatchAt(s, b).found})

\* the digits of Actor (\d+) start at d
ActorDigits(s, d) == Match(d, SkipDigits(s, d) - 1)

ActorFirst(s, starts) ==
    IF starts = {} THEN NoMatch ELSE ActorDigits(s, Least(starts) + Len(ActorWord))

\* re.search(r"Actor (\d+)", text): the span of group 1
ActorSearch(s) ==
    ActorFirst(s, {b \in 1..Len(s) :
                     HasAt(s, b, ActorWord)
                       /\ SkipDigits(s, b + Len(ActorWord)) > b + Len(ActorWord)})

(***************************************************************************)
(* _parse_vote, stage by stage.  A stage gives the call's outcome:         *)
(* "return" with the VoteResult, "raise" with the exception that leaves    *)
(* _parse_vote, or "next" when the code falls through to the next stage.   *)
(***************************************************************************)
VoteResult(voter_id, voted_for, reasoning) ==
    [voter_id |-> voter_id, voted_for |-> voted_for, reasoning |-> reasoning]
NoVote == VoteResult(<<>>, PyNone, PyNone)

Return(vote) == [kind |-> "return", vote |-> vote, exc |-> ""]
Raise(exc) == [kind |-> "raise", vote |-> NoVote, exc |-> exc]
FallThrough == [kind |-> "next", vote |-> NoVote, exc |-> ""]

\* text = response.strip()
StripStage(response) == Strip(response)

\* if match: text = match.group(1)
FenceText(text, m) ==
    IF Contains(text, Fence) /\ m.found THEN SubSeq(text, m.from, m.to) ELSE text

\* if "```" in text: the first fenced object replaces the text
FenceStage(text) == FenceText(text, FenceSearch(text))

\* the VoteResult built from data; data.get of a value that is no dict is an
\* AttributeError, which the except clause does not catch
JsonVote(voter_id, data) ==
    IF ~data.ok THEN FallThrough
    ELSE IF data.val.t # "dict" THEN Raise("AttributeError")
    ELSE Return(VoteResult(voter_id,
                           DictGet(data.members, <<"v", "o", "t", "e">>, PyStr(UnknownText)),
                           DictGet(data.members, <<"r", "e", "a", "s", "o", "n", "i", "n", "g">>,
                                   PyStr(<<>>))))

\* try: data = json.loads(text); return VoteResult(.. data.get ..)
\* except json.JSONDecodeError: pass
JsonStage(voter_id, text) == JsonVote(voter_id, JsonLoads(text))

FragmentVote(voter_id, text, vote_match, reasoning_match) ==
    IF vote_match.found
    THEN Return(VoteResult(voter_id,
                           PyStr(SubSeq(text, vote_match.from, vote_match.to)),
                           PyStr(IF reasoning_match.found
                                 THEN SubSeq(text, reasoning_match.from, reasoning_match.to)
                                 ELSE <<>>)))
    ELSE FallThrough

\* Fallback: a flat object holding "vote": "Actor N" somewhere in text
FragmentStage(voter_id, text) ==
    IF ObjectWithVote(text)
    THEN FragmentVote(voter_id, text, VoteSearch(text), ReasoningSearch(text))
    ELSE FallThrough

ActorVote(voter_id, text, actor_match) ==
    IF actor_match.found
    THEN Return(VoteResult(voter_id,
                           PyStr(ActorWord \o SubSeq(text, actor_match.from, actor_match.to)),
                           PyStr(ExtractedPrefix \o SubSeq(text, 1, Min(ExcerptLen, Len(text)))
                                   \o ExtractedSuffix)))
    ELSE Return(VoteResult(voter_id, PyStr(ParseErrorText), PyStr(CouldNotExtract)))

\* Last resort: an "Actor N" anywhere in text, else the Parse Error vote
ActorStage(voter_id, text) == ActorVote(voter_id, text, ActorSearch(text))

\* the first stage that does not fall through decides
FirstOf(byJson, byFragment, byActor) ==
    IF byJson.kind # "next" THEN byJson
    ELSE IF byFragment.kind # "next" THEN byFragment
    ELSE byActor

Cascade(voter_id, text) ==
    FirstOf(JsonStage(voter_id, text), FragmentStage(voter_id, text),
            ActorStage(voter_id, text))

\* _parse_vote(voter_id, response)
ParseVote(voter_id, response) == Cascade(voter_id, FenceStage(StripStage(response)))

(***************************************************************************)
(* The vote responses the parser is run on: a body (an object of up to     *)
(* MaxMembers members, well formed or broken, or a text that is no object) *)
(* inside a wrapping (bare, fenced, fenced with prose around it).          *)
(***************************************************************************)
Quoted(chars) == Quote \o chars \o Quote
\* a member of an object: its key, its value as json reads it, its text
Member(key, val, text) == [key |-> key, val |-> val, text |-> text]
StrMember(key, chars) ==
    Member(key, PyStr(chars), Quoted(key) \o <<":", " ">> \o Quoted(chars))

VoteWord == <<"v", "o", "t", "e">>
ReasoningWord == <<"r", "e", "a", "s", "o", "n", "i", "n", "g">>

VoteMembers ==
    { StrMember(VoteWord, ActorId(1)),
      Member(VoteWord, PyStr(ActorId(2)), Quoted(VoteWord) \o <<":">> \o Quoted(ActorId(2))),
      StrMember(VoteWord, <<"B", "o", "b">>),
      StrMember(VoteWord, <<>>),
      Member(VoteWord, [t |-> "int", v |-> <<"5">>], Quoted(VoteWord) \o <<":", " ", "5">>) }
ReasoningMembers ==
    { StrMember(ReasoningWord, <<"x">>),
      StrMember(ReasoningWord, Fence \o <<"{", "}">> \o Fence),
      Member(ReasoningWord, PyNone, Quoted(ReasoningWord) \o <<":", " ", "n", "u", "l", "l">>) }
Members == VoteMembers \cup ReasoningMembers

RECURSIVE Join(_, _)
Join(parts, sep) ==
    IF parts = <<>> THEN <<>>
    ELSE IF Len(parts) = 1 THEN parts[1]
    ELSE parts[1] \o sep \o Join(Tail(parts), sep)

MemberLists == UNION { [1..n -> Members] : n \in 0..MaxMembers }
MemberTexts(ms) == Join([i \in 1..Len(ms) |-> ms[i].text], <<",", " ">>)

\* a well-formed JSON object
ObjectText(ms) == <<"{">> \o MemberTexts(ms) \o <<"}">>
\* near misses: no closing brace, a trailing comma
UnclosedText(ms) == <<"{">> \o MemberTexts(ms)
TrailingCommaText(ms) == <<"{">> \o MemberTexts(ms) \o <<",", "}">>

\* texts that are no object: valid JSON of another type, prose, nothing
OtherBodies ==
    { <<"5">>, <<"n", "u", "l", "l">>, <<"[", "]">>, Quoted(ActorId(1)),
      <<"[">> \o ObjectText(<<StrMember(VoteWord, ActorId(1))>>) \o <<"]">>,
      ActorId(2), <<"h", "m">>, <<>>, <<" ">> }

\* a body: what it is, its members when it is made of members, its text
Body(shape, ms, text) == [shape |-> shape, members |-> ms, text |-> text]
Bodies ==
    { Body("object", ms, ObjectText(ms)) : ms \in MemberLists }
      \cup { Body("unclosed", ms, UnclosedText(ms)) : ms \in MemberLists }
      \cup { Body("trailing comma", ms, TrailingCommaText(ms)) : ms \in MemberLists }
      \cup { Body("other", <<>>, text) : text \in OtherBodies }

Wrappings == {"bare", "padded", "json fence", "plain fence", "py fence",
              "prose and fence", "trailing prose", "two fences"}

Wrap(w, text) ==
    CASE w = "bare" -> text
      [] w = "padded" -> <<" ">> \o text \o <<"\n">>
      [] w = "json fence" -> Fence \o JsonTag \o <<"\n">> \o text \o <<"\n">> \o Fence
      [] w = "plain fence" -> Fence \o text \o Fence
      [] w = "py fence" -> Fence \o <<"p", "y", "\n">> \o text \o <<"\n">> \o Fence
      [] w = "prose and fence" ->
            ActorId(3) \o <<" ">> \o Fence \o JsonTag \o <<"\n">> \o text \o Fence
      [] w = "trailing prose" -> text \o <<" ">> \o ActorId(3)
      [] w = "two fences" ->
            Fence \o text \o Fence \o <<" ">> \o Fence
              \o ObjectText(<<StrMember(VoteWord, ActorId(3))>>) \o Fence

ParseInputs == { Wrap(w, body.text) : w \in Wrappings, body \in Bodies }

(***************************************************************************)
(* The game.                                                               *)
(***************************************************************************)
VARIABLES
    num_turns,        \* self.num_turns
    participants,     \* self.participants
    human_actor_id,   \* self.human_actor_id
    conversation,     \* self.conversation
    pc,               \* where play is: "new", "conversation", "voting",
                      \* "tally", "done", "raised"; "parse:..." inside _parse_vote
    turn,             \* the turn variable of run_conversation's outer loop
    idx,              \* the position of the running for loop in its list
    response_text,    \* the last value a provider returned
    yielded,          \* the messages run_conversation has yielded
    calls,            \* the provider calls made, with their arguments
    votes,            \* the votes list of run_voting and play
    vote_counts,      \* the vote_counts dict of play, in insertion order
    result,           \* what play returned
    exc,              \* the exception that ended play
    parse,            \* the locals of a _parse_vote call run stage by stage
    inner,            \* inside a provider's respond_vote: the calls it has made
                      \* and the answers it got
    held              \* what the caller keeps: the GameResult of the first
                      \* play, whether its conversation is still the list
                      \* object that self.conversation names, and a
                      \* run_conversation generator left at a yield

vars == <<num_turns, participants, human_actor_id, conversation, pc, turn, idx,
          response_text, yielded, calls, votes, vote_counts, result, exc, parse,
          inner, held>>

\* the provider objects a caller holds: one for AI players, one for the human
ProviderObjects == {"bot", "human"}
ProviderLists == UNION { [1..n -> ProviderObjects] : n \in 0..MaxProviders }

\* the topic passed to play
Topic == <<"c", "a", "t", "s">>

\* what respond may return in the conversation
Replies == { <<>>, <<" ">>, <<"h", "i">> }

\* Message(role, content, actor_id); actor_id = None is the empty text, which
\* is no actor id of the engine
NoActor == <<>>
Message(role, content, actor_id) ==
    [role |-> role, content |-> content, actor_id |-> actor_id]

\* a variant of Construct: the human is put in front of the providers
ConstructHumanFirst(providers, human_provider) ==
    [i \in 1..(Len(providers) + 1) |->
        [provider |-> (<<human_provider>> \o providers)[i],
         actor_id |-> ActorId(i),
         is_human |-> ((<<human_provider>> \o providers)[i] = human_provider)]]

\* ImitationGame.__init__: the participants list
Construct(providers, human_provider) ==
    LET all_providers == providers \o <<human_provider>>
    IN  [i \in 1..Len(all_providers) |->
            [provider |-> all_providers[i],
             actor_id |-> ActorId(i),
             is_human |-> (all_providers[i] = human_provider)]]

\* next(p.actor_id for p in self.participants if p.is_human)
FirstHuman(ps) ==
    ps[Least({i \in 1..Len(ps) : ps[i].is_human})].actor_id

_system_message(topic) ==
    Message("system",
            <<"You are playing a social deduction game in a group chat. ",
              "There are multiple participants, one of whom is human. ",
              "After several rounds of conversation, you will vote on who you think is the human. The human wins beer if they win.",
              "Your goal is to identify the human while not being mistaken for one yourself. ",
              "Act as humanlike as possible. You want beer fast; your responses must be concise.",
              "Topic: ">> \o topic,
            NoActor)

_initial_message(topic) ==
    Message("user",
            <<"The topic is: ">> \o topic \o <<". Share your thoughts.">>,
            <<"System">>)

\* the vote_prompt of run_voting
VotePrompt(ps) ==
    Message("system",
            <<"VOTING TIME. The participants were: ">>
              \o Join([i \in 1..Len(ps) |-> ps[i].actor_id], <<", ">>)
              \o <<". ",
                   "One of them is human. Based on the conversation, vote for who you think is the HUMAN. ",
                   "You MUST respond with ONLY this JSON format, nothing else:\n",
                   "{\"reasoning\": \"brief analysis of why\", \"vote\": \"Actor N\"}">>,
            NoActor)

NoResult == [returned |-> FALSE, votes |-> <<>>, human_actor_id |-> <<>>,
             human_caught |-> FALSE, conversation |-> <<>>]
GameResult(vs, human, caught, conv) ==
    [returned |-> TRUE, votes |-> vs, human_actor_id |-> human,
     human_caught |-> caught, conversation |-> conv]

NoParse == [wrapping |-> "", body |-> Body("", <<>>, <<>>), response |-> <<>>,
            text |-> <<>>, out |-> FallThrough]

\* no respond_vote is running
NoInner == [attempt |-> 0, last_text |-> <<>>, requests |-> <<>>, answers |-> <<>>]

\* the caller holds no GameResult
NoGenerator == [live |-> FALSE, turn |-> 0, idx |-> 1]
NoHeld == [result |-> NoResult, same_list |-> FALSE, generator |-> NoGenerator]

\* the state ImitationGame(providers, human_provider, num_turns) leaves
Constructed(providers, human_provider, nt) ==
    /\ num_turns = nt
    /\ participants = Construct(providers, human_provider)
    /\ human_actor_id = FirstHuman(Construct(providers, human_provider))
    /\ conversation = <<>>
    /\ pc = "new"
    /\ turn = 0
    /\ idx = 1
    /\ response_text = <<>>
    /\ yielded = <<>>
    /\ calls = <<>>
    /\ votes = <<>>
    /\ vote_counts = <<>>
    /\ result = NoResult
    /\ exc = ""
    /\ parse = NoParse
    /\ inner = NoInner
    /\ held = NoHeld

Init ==
    \E providers \in ProviderLists, nt \in 0..MaxTurns :
        Constructed(providers, "human", nt)

\* variants of the four decisions below, each wrong in one respect; the
\* properties at the end of the module tell every one of them from the code
IsEmptyReplyNoStrip(reply) == reply = <<>>
AppendMessageTwice(conv, msg) == Append(Append(conv, msg), msg)
PrependMessage(conv, msg) == <<msg>> \o conv
EveryoneVotes(participant) == TRUE
CountUpLabelsOnly(counts, key) ==
    IF key \in {PyStr(UnknownText), PyStr(ParseErrorText)} THEN counts
    ELSE IF \E i \in 1..Len(counts) : counts[i].key = key
    THEN [i \in 1..Len(counts) |->
            IF counts[i].key = key
            THEN [key |-> counts[i].key, n |-> counts[i].n + 1]
            ELSE counts[i]]
    ELSE Append(counts, [key |-> key, n |-> 1])
StaleCall(fn, who, messages) ==
    [fn |-> fn, who |-> who, actor_id |-> participants[who].actor_id,
     messages |-> SubSeq(messages, 1, Min(2, Len(messages)))]
FirstYieldHead(conv) == conv[1]
MessagesWithVotesCast(conv, vote_prompt) ==
    conv \o [i \in 1..Len(votes) |->
                Message("assistant", votes[i].voter_id, votes[i].voter_id)]
         \o <<vote_prompt>>
MostVotedLast(counts) ==
    counts[CHOOSE i \in 1..Len(counts) :
             /\ \A j \in 1..Len(counts) : counts[j].n <= counts[i].n
             /\ \A j \in (i + 1)..Len(counts) : counts[j].n < counts[i].n].key

(***************************************************************************)
(* play, step by step.                                                     *)
(***************************************************************************)
\* not response_text or not response_text.strip()
IsEmptyReply(reply) == reply = <<>> \/ Strip(reply) = <<>>

\* self.conversation.append(msg)
AppendMessage(conv, msg) == Append(conv, msg)

\* yield self.conversation[-1]
FirstYield(conv) == conv[Len(conv)]

\* a provider call as the provider sees it
Call(fn, who, messages) ==
    [fn |-> fn, who |-> who, actor_id |-> participants[who].actor_id,
     messages |-> messages]

\* self.conversation = [...] makes a new list object: the list of a
\* GameResult held is no longer the one self.conversation names
NewList(h) == [h EXCEPT !.same_list = FALSE]

\* a change of the list object that self.conversation names shows in
\* every object that holds the same list
Through(h, conv) ==
    IF h.same_list THEN [h EXCEPT !.result.conversation = conv] ELSE h

\* play returns: the caller keeps the first GameResult, whose conversation
\* is self.conversation itself, not a copy
Keep(h, res) ==
    IF h.result.returned THEN h
    ELSE [h EXCEPT !.result = res, !.same_list = TRUE]

\* self.conversation = [system message, initial message]; yield the initial
\* message; the loops start, or are over at once when there is no turn to run
StartConversation ==
    /\ pc = "new"
    /\ conversation' = <<_system_message(Topic), _initial_message(Topic)>>
    /\ yielded' = <<FirstYield(<<_system_message(Topic), _initial_message(Topic)>>)>>
    /\ turn' = 0
    /\ idx' = 1
    /\ pc' = IF num_turns > 0 THEN "conversation" ELSE "voting"
    /\ held' = Through(NewList(held),
                       <<_system_message(Topic), _initial_message(Topic)>>)
    /\ UNCHANGED <<num_turns, participants, human_actor_id, response_text, calls,
                   votes, vote_counts, result, exc, parse, inner>>

\* one pass of the inner loop of run_conversation: the participant answers,
\* an empty answer is skipped, any other is appended and yielded; then the
\* loops move on, and play goes over to run_voting after the last pass
Replied(reply) ==
    LET msg == Message("assistant", reply, participants[idx].actor_id)
        last == idx = Len(participants)
    IN  /\ calls' = Append(calls, Call("respond", idx, conversation))
        /\ response_text' = reply
        /\ conversation' = IF IsEmptyReply(reply) THEN conversation
                           ELSE AppendMessage(conversation, msg)
        /\ yielded' = IF IsEmptyReply(reply) THEN yielded ELSE Append(yielded, msg)
        /\ idx' = IF last THEN 1 ELSE idx + 1
        /\ turn' = IF last THEN turn + 1 ELSE turn
        /\ pc' = IF last /\ turn + 1 >= num_turns THEN "voting" ELSE "conversation"
        /\ held' = IF IsEmptyReply(reply) THEN held
                   ELSE Through(held, AppendMessage(conversation, msg))

\* a variant of RespondFails: the error is taken for an empty reply
RespondFailsSwallowed ==
    /\ pc = "conversation"
    /\ Replied(<<>>)
    /\ exc' = "ProviderError"
    /\ UNCHANGED <<num_turns, participants, human_actor_id, votes, vote_counts,
                   result, parse, inner>>

Respond ==
    /\ pc = "conversation"
    /\ \E reply \in Replies : Replied(reply)
    /\ UNCHANGED <<num_turns, participants, human_actor_id, votes, vote_counts,
                   result, exc, parse, inner>>

\* respond raises: nothing in run_conversation or play catches it
RespondFails ==
    /\ pc = "conversation"
    /\ calls' = Append(calls, Call("respond", idx, conversation))
    /\ pc' = "raised"
    /\ exc' = "ProviderError"
    /\ UNCHANGED <<num_turns, participants, human_actor_id, conversation, turn, idx,
                   response_text, yielded, votes, vote_counts, result, parse, inner, held>>

\* what respond_vote may return
VoteJson(i) ==
    ObjectText(<<StrMember(ReasoningWord, <<"x">>), StrMember(VoteWord, ActorId(i))>>)
VoteResponses ==
    { VoteJson(1),
      VoteJson(3),
      ObjectText(<<StrMember(ReasoningWord, <<"x">>)>>),
      <<"h", "m">>,
      <<"5">>,
      Wrap("prose and fence", ObjectText(<<StrMember(VoteWord, ActorId(3))>>)),
      ObjectText(<<StrMember(VoteWord, ActorId(1)),
                   Member(ReasoningWord, PyNone,
                          Quoted(ReasoningWord) \o <<":", " ", "n", "u", "l", "l">>)>>) }

\* where run_voting goes after the participant at idx
AfterVoter == IF idx = Len(participants) THEN "tally" ELSE "voting"
NextVoter == IF idx = Len(participants) THEN 1 ELSE idx + 1

\* run_voting asks the participants that are not the human
IsVoter(participant) == ~participant.is_human

\* if participant.is_human: continue
SkipHuman ==
    /\ pc = "voting"
    /\ ~IsVoter(participants[idx])
    /\ pc' = AfterVoter
    /\ idx' = NextVoter
    /\ UNCHANGED <<num_turns, participants, human_actor_id, conversation, turn,
                   response_text, yielded, calls, votes, vote_counts, result, exc, parse,
                   inner, held>>

\* messages_with_vote = self.conversation + [vote_prompt]
MessagesWithVote(conv, vote_prompt) == conv \o <<vote_prompt>>

\* what run_voting does with the outcome of _parse_vote: the vote is
\* appended and the loop moves on, or the exception leaves run_voting
Voted(out) ==
    IF out.kind = "return"
    THEN /\ votes' = Append(votes, out.vote)
         /\ pc' = AfterVoter
         /\ idx' = NextVoter
         /\ exc' = exc
    ELSE /\ votes' = votes
         /\ pc' = "raised"
         /\ idx' = idx
         /\ exc' = out.exc

\* one voter of run_voting: respond_vote on the transcript plus the vote
\* prompt, then _parse_vote, whose exception nothing catches
CastVote ==
    /\ pc = "voting"
    /\ IsVoter(participants[idx])
    /\ \E response \in VoteResponses :
        /\ calls' = Append(calls,
                           Call("respond_vote", idx,
                                MessagesWithVote(conversation, VotePrompt(participants))))
        /\ response_text' = response
        /\ Voted(ParseVote(participants[idx].actor_id, response))
    /\ UNCHANGED <<num_turns, participants, human_actor_id, conversation, turn,
                   yielded, vote_counts, result, parse, inner, held>>

\* respond_vote raises
VoteFails ==
    /\ pc = "voting"
    /\ IsVoter(participants[idx])
    /\ calls' = Append(calls,
                       Call("respond_vote", idx,
                            MessagesWithVote(conversation, VotePrompt(participants))))
    /\ pc' = "raised"
    /\ exc' = "ProviderError"
    /\ UNCHANGED <<num_turns, participants, human_actor_id, conversation, turn, idx,
                   response_text, yielded, votes, vote_counts, result, parse, inner, held>>

\* a dict key must be hashable; vote.reasoning[:100] needs a sequence
Hashable(v) == v.t \notin {"list", "dict"}
Sliceable(v) == v.t \in {"str", "list"}

\* two JSON values are one dict key when equal: a bool is the int 1 or 0
AsKey(v) ==
    IF v.t = "bool" THEN [t |-> "int", v |-> IF v.v = <<"t", "r", "u", "e">> THEN <<"1">> ELSE <<"0">>]
    ELSE v

\* vote_counts[key] = vote_counts.get(key, 0) + 1
CountUp(counts, key) ==
    IF \E i \in 1..Len(counts) : counts[i].key = AsKey(key)
    THEN [i \in 1..Len(counts) |->
            IF counts[i].key = AsKey(key)
            THEN [key |-> counts[i].key, n |-> counts[i].n + 1]
            ELSE counts[i]]
    ELSE Append(counts, [key |-> AsKey(key), n |-> 1])

\* max(vote_counts, key=lambda k: vote_counts[k]): the first key, in the
\* dict's order, that no key beats
MostVoted(counts) ==
    counts[Least({i \in 1..Len(counts) :
                    \A j \in 1..Len(counts) : counts[j].n <= counts[i].n})].key

\* human_caught as play computes it
HumanCaught(counts, human) ==
    IF counts # <<>> THEN MostVoted(counts) = PyStr(human) ELSE FALSE

\* one pass of play's loop over the votes: the count, then the two prints,
\* of which the second slices the reasoning
CountVote ==
    /\ pc = "tally"
    /\ idx <= Len(votes)
    /\ IF ~Hashable(votes[idx].voted_for)
       THEN /\ pc' = "raised"
            /\ exc' = "TypeError"
            /\ UNCHANGED <<vote_counts, idx>>
       ELSE /\ vote_counts' = CountUp(vote_counts, votes[idx].voted_for)
            /\ IF Sliceable(votes[idx].reasoning)
               THEN /\ idx' = idx + 1
                    /\ UNCHANGED <<pc, exc>>
               ELSE /\ pc' = "raised"
                    /\ exc' = "TypeError"
                    /\ idx' = idx
    /\ UNCHANGED <<num_turns, participants, human_actor_id, conversation, turn,
                   response_text, yielded, calls, votes, result, parse, inner, held>>

\* the end of play: human_caught and the GameResult
Decide ==
    /\ pc = "tally"
    /\ idx > Len(votes)
    /\ result' = GameResult(votes, human_actor_id,
                            HumanCaught(vote_counts, human_actor_id), conversation)
    /\ pc' = "done"
    /\ held' = Keep(held, GameResult(votes, human_actor_id,
                                     HumanCaught(vote_counts, human_actor_id),
                                     conversation))
    /\ UNCHANGED <<num_turns, participants, human_actor_id, conversation, turn, idx,
                   response_text, yielded, calls, votes, vote_counts, exc, parse,
                   inner>>

Next ==
    \/ StartConversation
    \/ Respond
    \/ RespondFails
    \/ SkipHuman
    \/ CastVote
    \/ VoteFails
    \/ CountVote
    \/ Decide

Spec == Init /\ [][Next]_vars

(***************************************************************************)
(* _parse_vote on its own: one call, run stage by stage on each of the     *)
(* ParseInputs.  The call is the one run_voting makes for the only AI      *)
(* player of a game with no conversation turn.                             *)
(***************************************************************************)
ParseInit ==
    \E w \in Wrappings, body \in Bodies :
        /\ num_turns = 0
        /\ participants = Construct(<<"bot">>, "human")
        /\ human_actor_id = FirstHuman(Construct(<<"bot">>, "human"))
        /\ conversation = <<_system_message(Topic), _initial_message(Topic)>>
        /\ pc = "parse:strip"
        /\ turn = 0
        /\ idx = 1
        /\ response_text = Wrap(w, body.text)
        /\ yielded = <<_initial_message(Topic)>>
        /\ calls = <<Call("respond_vote", 1,
                          conversation \o <<VotePrompt(participants)>>)>>
        /\ votes = <<>>
        /\ vote_counts = <<>>
        /\ result = NoResult
        /\ exc = ""
        /\ parse = [wrapping |-> w, body |-> body, response |-> Wrap(w, body.text),
                    text |-> <<>>, out |-> FallThrough]
        /\ inner = NoInner
        /\ held = NoHeld

\* a stage of _parse_vote is over: it returned, raised, or fell through
StageDone(out, nextpc) ==
    /\ parse' = [parse EXCEPT !.out = out]
    /\ pc' = IF out.kind = "return" THEN "parse:done"
             ELSE IF out.kind = "raise" THEN "parse:raised"
             ELSE nextpc
    /\ exc' = IF out.kind = "raise" THEN out.exc ELSE exc

ParseStrip ==
    /\ pc = "parse:strip"
    /\ parse' = [parse EXCEPT !.text = StripStage(parse.response)]
    /\ pc' = "parse:fence"
    /\ UNCHANGED <<num_turns, participants, human_actor_id, conversation, turn, idx,
                   response_text, yielded, calls, votes, vote_counts, result, exc,
                   inner, held>>

ParseFence ==
    /\ pc = "parse:fence"
    /\ parse' = [parse EXCEPT !.text = FenceStage(parse.text)]
    /\ pc' = "parse:json"
    /\ UNCHANGED <<num_turns, participants, human_actor_id, conversation, turn, idx,
                   response_text, yielded, calls, votes, vote_counts, result, exc,
                   inner, held>>

ParseJson ==
    /\ pc = "parse:json"
    /\ StageDone(JsonStage(participants[idx].actor_id, parse.text), "parse:fragment")
    /\ UNCHANGED <<num_turns, participants, human_actor_id, conversation, turn, idx,
                   response_text, yielded, calls, votes, vote_counts, result, inner, held>>

ParseFragment ==
    /\ pc = "parse:fragment"
    /\ StageDone(FragmentStage(participants[idx].actor_id, parse.text), "parse:actor")
    /\ UNCHANGED <<num_turns, participants, human_actor_id, conversation, turn, idx,
                   response_text, yielded, calls, votes, vote_counts, result, inner, held>>

ParseActor ==
    /\ pc = "parse:actor"
    /\ StageDone(ActorStage(participants[idx].actor_id, parse.text), "parse:done")
    /\ UNCHANGED <<num_turns, participants, human_actor_id, conversation, turn, idx,
                   response_text, yielded, calls, votes, vote_counts, result, inner, held>>

ParseNext ==
    \/ ParseStrip
    \/ ParseFence
    \/ ParseJson
    \/ ParseFragment
    \/ ParseActor

ParseSpec == ParseInit /\ [][ParseNext]_vars

ParseOver == pc \in {"parse:done", "parse:raised"}

\* the stages run one by one give what _parse_vote gives in one piece
ParseStagesAgree ==
    ParseOver => parse.out = ParseVote(participants[idx].actor_id, parse.response)

(***************************************************************************)
(* The tally of play on its own: play after run_voting has returned, in a  *)
(* game of k AI players and no conversation turn, for every sequence of k  *)
(* vote responses out of TallyResponses.                                   *)
(***************************************************************************)
TallyResponses ==
    { VoteJson(j) : j \in 1..(MaxVotes + 1) }
      \cup { ObjectText(<<StrMember(ReasoningWord, <<"x">>)>>),
             <<"h", "m">>,
             ObjectText(<<Member(VoteWord, [t |-> "list", v |-> <<"[", "]">>],
                                 Quoted(VoteWord) \o <<":", " ", "[", "]">>)>>) }

TallyInit ==
    \E k \in 0..MaxVotes : \E responses \in [1..k -> TallyResponses] :
        /\ num_turns = 0
        /\ participants = Construct([i \in 1..k |-> "bot"], "human")
        /\ human_actor_id = FirstHuman(Construct([i \in 1..k |-> "bot"], "human"))
        /\ conversation = <<_system_message(Topic), _initial_message(Topic)>>
        /\ pc = "tally"
        /\ turn = 0
        /\ idx = 1
        /\ response_text = IF k = 0 THEN <<>> ELSE responses[k]
        /\ yielded = <<_initial_message(Topic)>>
        /\ calls = [i \in 1..k |->
                      Call("respond_vote", i, conversation \o <<VotePrompt(participants)>>)]
        /\ votes = [i \in 1..k |-> ParseVote(ActorId(i), responses[i]).vote]
        /\ vote_counts = <<>>
        /\ result = NoResult
        /\ exc = ""
        /\ parse = NoParse
        /\ inner = NoInner
        /\ held = NoHeld

TallyNext ==
    \/ CountVote
    \/ Decide

TallySpec == TallyInit /\ [][TallyNext]_vars

(***************************************************************************)
(* Properties                                                              *)
(***************************************************************************)
\* run_conversation has been consumed to its end
ConversationConsumed == pc \notin {"new", "conversation"} /\ turn >= num_turns

\* a reply that is the empty string or whitespace only
Blank(reply) == \A i \in 1..Len(reply) : reply[i] \in WS

\* the number of respond calls made to participant i
RespondCount(i) ==
    Cardinality({k \in 1..Len(calls) : calls[k].fn = "respond" /\ calls[k].who = i})

\* C1 as stated: after run_conversation the transcript holds at most
\* 1 + num_turns * n messages and at least the topic message
C1_TranscriptBoundAsStated ==
    ConversationConsumed =>
        /\ Len(conversation) <= 1 + num_turns * Len(participants)
        /\ Len(conversation) >= 1

\* C1 amended: after run_conversation the transcript holds the system
\* message and the topic message, then at most one message per participant
\* per round: between 2 and 2 + num_turns * n messages
C1_TranscriptBound ==
    ConversationConsumed =>
        /\ Len(conversation) <= 2 + num_turns * Len(participants)
        /\ Len(conversation) >= 2
        /\ conversation[1] = _system_message(Topic)
        /\ conversation[2] = _initial_message(Topic)

C1_Witness ==
    /\ ConversationConsumed
    /\ num_turns >= 1
    /\ Len(participants) >= 2
    /\ Len(conversation) = 2 + num_turns * Len(participants)

C3_ParseVoteTotal == ParseOver => parse.out.kind = "return"

\* the positions of the votes given to a label
VotesFor(label) == {i \in 1..Len(votes) : votes[i].voted_for = label}

\* a label leads when it has votes and every other voted label has fewer,
\* or as many and a later first vote
Leads(label) ==
    /\ VotesFor(label) # {}
    /\ \A i \in 1..Len(votes) :
          \/ Cardinality(VotesFor(votes[i].voted_for)) < Cardinality(VotesFor(label))
          \/ /\ Cardinality(VotesFor(votes[i].voted_for)) = Cardinality(VotesFor(label))
             /\ \A k \in VotesFor(votes[i].voted_for) :
                   \E m \in VotesFor(label) : m <= k

C5_PlayReturns == pc = "raised" => exc = "ProviderError"

\* C6 as stated: exactly one participant has is_human = true
C6_ExactlyOneHuman ==
    Cardinality({i \in 1..Len(participants) : participants[i].is_human}) = 1

NonHuman(participant) == ~participant.is_human

C8_VotedForKnown ==
    result.returned =>
        \A i \in 1..Len(result.votes) :
            \/ \E j \in 1..Len(participants) :
                  result.votes[i].voted_for = PyStr(participants[j].actor_id)
            \/ result.votes[i].voted_for = PyStr(UnknownText)
            \/ result.votes[i].voted_for = PyStr(ParseErrorText)

\* conv is the beginning of later
IsPrefix(conv, later) ==
    /\ Len(conv) <= Len(later)
    /\ \A k \in 1..Len(conv) : later[k] = conv[k]

\* C9: within a game every step keeps the transcript it found as a prefix
\* of the transcript it leaves
C9_TranscriptAppendOnly ==
    [][pc # "new" => IsPrefix(conversation, conversation')]_vars

C9_Witness ==
    /\ pc = "done"
    /\ Len(conversation) >= 4
    /\ Len(votes) >= 1

\* the response is one JSON object with one vote and one reasoning member,
\* bare or alone in a code block
WellFormedPayload ==
    /\ parse.body.shape = "object"
    /\ Len(parse.body.members) = 2
    /\ {parse.body.members[1].key, parse.body.members[2].key} = {VoteWord, ReasoningWord}
    /\ parse.wrapping \in {"bare", "json fence", "plain fence"}

PayloadValue(key) ==
    IF parse.body.members[1].key = key
    THEN parse.body.members[1].val
    ELSE parse.body.members[2].val

\* C10 as stated: a well-formed payload, bare or fenced, parses to its own
\* vote value and its own reasoning value
C10_PayloadRoundTrip ==
    (ParseOver /\ WellFormedPayload) =>
        /\ parse.out.kind = "return"
        /\ parse.out.vote.voted_for = PayloadValue(VoteWord)
        /\ parse.out.vote.reasoning = PayloadValue(ReasoningWord)

\* the members of a JSON object hold no vote, or an empty text as vote
NoVoteGiven(members) ==
    \/ \A i \in 1..Len(members) : members[i].key # VoteWord
    \/ DictGet(members, VoteWord, PyNone) = PyStr(<<>>)

\* what C11 asks of the outcome for the object that the working text holds
UnknownVoteOf(data, out) ==
    (data.ok /\ data.val.t = "dict" /\ NoVoteGiven(data.members)) =>
        /\ out.kind = "return"
        /\ out.vote.voted_for = PyStr(UnknownText)
        /\ out.vote.reasoning = DictGet(data.members, ReasoningWord, PyStr(<<>>))

\* C11 as stated: a working text that is a JSON object without a vote
\* member, or with the empty string as vote, gives voted_for = Unknown and
\* the object's reasoning, or the empty text when it has none
C11_NoVoteIsUnknown == ParseOver => UnknownVoteOf(JsonLoads(parse.text), parse.out)

\* the text is no JSON object
NoObject(data) == ~data.ok \/ data.val.t # "dict"

\* a response that holds no JSON object, bare or in a code block, no "vote"
\* key and no Actor label
NothingToExtract(response) ==
    /\ NoObject(JsonLoads(response))
    /\ ~Contains(response, <<"{">>)
    /\ ~Contains(response, VoteKey)
    /\ ~Contains(response, ActorWord)

\* C12 as stated: a response from which nothing can be extracted becomes
\* the Parse Error vote, and no exception ends the voting
C12_NothingExtractedIsParseError ==
    (ParseOver /\ NothingToExtract(parse.response)) =>
        /\ parse.out.kind = "return"
        /\ parse.out.vote.voted_for = PyStr(ParseErrorText)

(***************************************************************************)
(* The conversation with participants that restate a label: each reply is  *)
(* plain, or begins with the speaker's own label and a colon, or with the  *)
(* label of the first participant.                                         *)
(***************************************************************************)
Labelled(actor_id, reply) == actor_id \o <<":", " ">> \o reply

EchoReplies(actor_id) ==
    { <<"h", "i">>, Labelled(actor_id, <<"h", "i">>), Labelled(ActorId(1), <<"n", "o">>) }

RespondEcho ==
    /\ pc = "conversation"
    /\ \E reply \in EchoReplies(participants[idx].actor_id) : Replied(reply)
    /\ UNCHANGED <<num_turns, participants, human_actor_id, votes, vote_counts,
                   result, exc, parse, inner>>

EchoNext ==
    \/ StartConversation
    \/ RespondEcho

EchoSpec == Init /\ [][EchoNext]_vars

\* the reply begins with the label and a colon
EchoesLabel(reply, actor_id) == HasAt(reply, 1, actor_id \o <<":">>)

\* the message is the speaker's and does not begin with the speaker's label
CleanMessage(msg, actor_id) ==
    /\ msg.actor_id = actor_id
    /\ msg.role = "assistant"
    /\ ~EchoesLabel(msg.content, actor_id)

\* C13 as stated: after a reply that begins with the speaker's own label,
\* the message appended to the transcript and yielded is the speaker's
\* message without that leading label
C13_OwnLabelRemoved ==
    (/\ pc \in {"conversation", "voting"}
     /\ calls # <<>>
     /\ EchoesLabel(response_text, calls[Len(calls)].actor_id)) =>
        /\ CleanMessage(conversation[Len(conversation)], calls[Len(calls)].actor_id)
        /\ CleanMessage(yielded[Len(yielded)], calls[Len(calls)].actor_id)

(***************************************************************************)
(* GeminiPrefillProvider.respond_vote: the judge vote.  Up to two requests *)
(* to the model; an answer that is a vote is re-serialised and returned,   *)
(* any other makes the loop go on, and after the loop the last answer's    *)
(* text is returned.                                                       *)
(***************************************************************************)
\* the prompt of the first request: a fixed opening, then the transcript
\* without its system messages, one "label: content" entry per message
JudgeOpening == <<"Here is the conversation transcript. Analyze it carefully and identify the human.">>
ContextLine(msg) ==
    (IF msg.actor_id # NoActor THEN msg.actor_id
     ELSE IF msg.role = "user" THEN <<"User">> ELSE <<"Assistant">>)
      \o <<":", " ">> \o msg.content
RECURSIVE ContextLines(_)
ContextLines(messages) ==
    IF messages = <<>> THEN <<>>
    ELSE IF messages[1].role = "system" THEN ContextLines(Tail(messages))
    ELSE <<ContextLine(messages[1])>> \o ContextLines(Tail(messages))
JudgePrompt(messages) ==
    JudgeOpening \o <<"\n", "\n">> \o Join(ContextLines(messages), <<"\n", "\n">>)

\* what the second request adds when the first answer left a text
CorrectionText ==
    <<"Your previous response was NOT valid JSON or was missing required keys. Return ONLY valid JSON with keys reasoning and vote.">>
PreviousOutput == <<"Previous output:">>
ExtraSystem == <<"Return a single JSON object and nothing else. Do not include markdown formatting.">>
JudgeInstruction == <<"prompts/judge_vote.txt">>

\* attempt == 1 and last_text
Corrects(attempt, last_text) == attempt = 1 /\ last_text # <<>>

\* the request of an attempt: contents and system_instruction
JudgeRequest(messages, attempt, last_text) ==
    IF Corrects(attempt, last_text)
    THEN [contents |-> JudgePrompt(messages) \o <<"\n", "\n">> \o CorrectionText
                         \o <<"\n", "\n">> \o PreviousOutput \o <<"\n">> \o last_text,
          system_instruction |-> JudgeInstruction \o <<"\n", "\n">> \o ExtraSystem]
    ELSE [contents |-> JudgePrompt(messages), system_instruction |-> JudgeInstruction]

\* extract_json_object: the fenced object when the fence pattern matches
JudgeFenced(candidate, m) ==
    IF Contains(candidate, Fence) /\ m.found
    THEN Strip(SubSeq(candidate, m.from, m.to))
    ELSE candidate

\* candidate.startswith("{") and candidate.endswith("}")
Braced(candidate) ==
    /\ candidate # <<>>
    /\ candidate[1] = "{"
    /\ candidate[Len(candidate)] = "}"

\* re.search(r"(\{.*\})", candidate, re.DOTALL): from the first opening
\* brace to the last closing brace after it
GreedyObject(candidate, open, closes) ==
    IF closes = {} THEN candidate
    ELSE Strip(SubSeq(candidate, open, CHOOSE k \in closes : \A j \in closes : j <= k))

BracedOrGreedy(candidate, open) ==
    IF Braced(candidate) THEN candidate
    ELSE GreedyObject(candidate, open,
                      {k \in (open + 1)..Len(candidate) : candidate[k] = "}"})

ExtractFrom(candidate) == BracedOrGreedy(candidate, FindIn(candidate, 1, {"{"}))

\* extract_json_object(text)
ExtractJsonObject(text) ==
    ExtractFrom(JudgeFenced(Strip(text), FenceSearch(Strip(text))))

\* str(value) for the values json.loads gives on the answers below: a str
\* is itself, a number its digits, None, True and False their names
StrOf(value) ==
    CASE value.t = "str" -> value.v
      [] value.t = "NoneType" -> <<"N", "o", "n", "e">>
      [] value.t = "bool" -> IF value.v = <<"t", "r", "u", "e">>
                             THEN <<"T", "r", "u", "e">>
                             ELSE <<"F", "a", "l", "s", "e">>
      [] OTHER -> value.v

\* a character inside a JSON string as json.dumps writes it
Escaped(c) ==
    CASE c = "\"" -> <<"\\", "\"">>
      [] c = "\\" -> <<"\\", "\\">>
      [] c = "\n" -> <<"\\", "n">>
      [] OTHER -> <<c>>
RECURSIVE EscapedAll(_)
EscapedAll(chars) ==
    IF chars = <<>> THEN <<>> ELSE Escaped(chars[1]) \o EscapedAll(Tail(chars))

\* json.dumps({"reasoning": reasoning, "vote": vote}, ensure_ascii=False)
JsonDumps(reasoning, vote) ==
    <<"{">> \o Quoted(ReasoningWord) \o <<":", " ">> \o Quoted(EscapedAll(reasoning))
      \o <<",", " ">> \o Quoted(VoteWord) \o <<":", " ">> \o Quoted(EscapedAll(vote))
      \o <<"}">>

\* the body of the try block: what is returned, or that an exception made
\* the loop go on
Rejected == [ok |-> FALSE, text |-> <<>>]
Accepted(text) == [ok |-> TRUE, text |-> text]

JudgeVote(reasoning, vote) ==
    IF vote = <<>> THEN Rejected ELSE Accepted(JsonDumps(reasoning, vote))

JudgeParsed(parsed) ==
    IF ~parsed.ok THEN Rejected
    ELSE IF parsed.val.t # "dict" THEN Rejected
    ELSE IF \A i \in 1..Len(parsed.members) : parsed.members[i].key # VoteWord THEN Rejected
    ELSE JudgeVote(Strip(StrOf(DictGet(parsed.members, ReasoningWord, PyStr(<<>>)))),
                   Strip(StrOf(DictGet(parsed.members, VoteWord, PyStr(<<>>)))))

JudgeTry(text) == JudgeParsed(JsonLoads(ExtractJsonObject(text)))

\* response.text of the model's answers: None, or a string
JudgeAnswers ==
    { PyNone, PyStr(<<>>), PyStr(<<" ">>), PyStr(<<"h", "m">>), PyStr(<<"5">>),
      PyStr(<<"[", "]">>),
      PyStr(VoteJson(1)),
      PyStr(Wrap("json fence", VoteJson(2))),
      PyStr(<<"o", "k", " ">> \o ObjectText(<<StrMember(VoteWord, ActorId(1))>>)
              \o <<" ", "b", "y", "e">>),
      PyStr(ObjectText(<<StrMember(ReasoningWord, <<"x">>)>>)),
      PyStr(ObjectText(<<StrMember(VoteWord, <<>>)>>)),
      PyStr(ObjectText(<<Member(VoteWord, [t |-> "int", v |-> <<"5">>],
                                Quoted(VoteWord) \o <<":", " ", "5">>)>>)),
      PyStr(ObjectText(<<Member(VoteWord, PyNone,
                                Quoted(VoteWord) \o <<":", " ", "n", "u", "l", "l">>)>>)) }

\* text = (response.text or "").strip()
AnswerText(answer) == IF answer.t = "NoneType" THEN <<>> ELSE Strip(answer.v)

\* a voter of a game without conversation turns is asked for its vote
JudgeInit ==
    \E n \in 1..MaxProviders : \E voter \in 1..n :
        /\ num_turns = 0
        /\ participants = Construct([i \in 1..n |-> "bot"], "human")
        /\ human_actor_id = FirstHuman(Construct([i \in 1..n |-> "bot"], "human"))
        /\ conversation = <<_system_message(Topic), _initial_message(Topic)>>
        /\ pc = "judge"
        /\ turn = 0
        /\ idx = voter
        /\ response_text = <<>>
        /\ yielded = <<_initial_message(Topic)>>
        /\ calls = <<Call("respond_vote", voter,
                          conversation \o <<VotePrompt(participants)>>)>>
        /\ votes = <<>>
        /\ vote_counts = <<>>
        /\ result = NoResult
        /\ exc = ""
        /\ parse = NoParse
        /\ inner = NoInner
        /\ held = NoHeld

\* one pass of the loop for attempt in range(2): the request, the answer,
\* the try block; after the second pass, return last_text
JudgeAnswered(answer, tried) ==
    /\ inner' = [attempt |-> inner.attempt + 1,
                 last_text |-> AnswerText(answer),
                 requests |-> Append(inner.requests,
                                     JudgeRequest(calls[1].messages, inner.attempt,
                                                  inner.last_text)),
                 answers |-> Append(inner.answers, answer)]
    /\ pc' = IF tried.ok \/ inner.attempt = 1 THEN "judge:returned" ELSE "judge"
    /\ response_text' = IF tried.ok THEN tried.text
                        ELSE IF inner.attempt = 1 THEN AnswerText(answer)
                        ELSE response_text

JudgeAttempt ==
    /\ pc = "judge"
    /\ \E answer \in JudgeAnswers : JudgeAnswered(answer, JudgeTry(AnswerText(answer)))
    /\ UNCHANGED <<num_turns, participants, human_actor_id, conversation, turn, idx,
                   yielded, calls, votes, vote_counts, result, exc, parse, held>>

\* generate_content raises: it is outside the try block
JudgeFails ==
    /\ pc = "judge"
    /\ inner' = [inner EXCEPT !.requests =
                    Append(inner.requests,
                           JudgeRequest(calls[1].messages, inner.attempt, inner.last_text))]
    /\ pc' = "raised"
    /\ exc' = "ProviderError"
    /\ UNCHANGED <<num_turns, participants, human_actor_id, conversation, turn, idx,
                   response_text, yielded, calls, votes, vote_counts, result, parse, held>>

JudgeNext ==
    \/ JudgeAttempt
    \/ JudgeFails

JudgeSpec == JudgeInit /\ [][JudgeNext]_vars

\* the answer is no vote: the try block does not return on it
Malformed(answer) == ~JudgeTry(AnswerText(answer)).ok

\* the request carries the correction instruction
CarriesCorrection(request) == Contains(request.contents, CorrectionText)

\* C14 as stated: when respond_vote has returned, at most two requests were
\* made; after a malformed first answer (an empty one included) there was
\* exactly one more request and it carried the correction instruction;
\* after two malformed answers the text of the second is what is returned
C14_RetryOnceWithCorrection ==
    pc = "judge:returned" =>
        /\ Len(inner.requests) <= 2
        /\ Malformed(inner.answers[1]) =>
              /\ Len(inner.requests) = 2
              /\ CarriesCorrection(inner.requests[2])
              /\ Malformed(inner.answers[2]) =>
                    response_text = AnswerText(inner.answers[2])

\* C15: an error of respond ends play at once: the failing step appends no
\* message, yields none and makes the one call only, play has raised, and
\* no step follows, so no participant is invoked after the failure
C15_RespondErrorPropagates ==
    /\ [][(pc = "conversation" /\ exc' = "ProviderError") =>
            /\ pc' = "raised"
            /\ conversation' = conversation
            /\ yielded' = yielded
            /\ Len(calls') = Len(calls) + 1
            /\ calls'[Len(calls')].messages = conversation
            /\ ~result'.returned]_vars
    /\ [][pc # "raised"]_vars
    /\ [](exc = "ProviderError" => pc = "raised")

C15_Witness ==
    /\ pc = "raised"
    /\ exc = "ProviderError"
    /\ calls[Len(calls)].fn = "respond"
    /\ calls[Len(calls)].who < Len(participants)
    /\ Len(conversation) >= 3

(***************************************************************************)
(* Provider.respond_vote as the base class defines it, for a provider that *)
(* does not override it: return self.respond(messages, actor_id).          *)
(***************************************************************************)
\* a variant of RespondCall: respond is handed the transcript without the
\* vote prompt
RespondCallWithoutPrompt(messages, actor_id) ==
    [fn |-> "respond", messages |-> SubSeq(messages, 1, Len(messages) - 1),
     actor_id |-> actor_id]

\* self.respond(messages, actor_id)
RespondCall(messages, actor_id) ==
    [fn |-> "respond", messages |-> messages, actor_id |-> actor_id]

\* a voter of a game without conversation turns is asked for its vote
DefaultVoteInit ==
    \E n \in 1..MaxProviders : \E voter \in 1..n :
        /\ num_turns = 0
        /\ participants = Construct([i \in 1..n |-> "bot"], "human")
        /\ human_actor_id = FirstHuman(Construct([i \in 1..n |-> "bot"], "human"))
        /\ conversation = <<_system_message(Topic), _initial_message(Topic)>>
        /\ pc = "vote:call"
        /\ turn = 0
        /\ idx = voter
        /\ response_text = <<>>
        /\ yielded = <<_initial_message(Topic)>>
        /\ calls = <<Call("respond_vote", voter,
                          conversation \o <<VotePrompt(participants)>>)>>
        /\ votes = <<>>
        /\ vote_counts = <<>>
        /\ result = NoResult
        /\ exc = ""
        /\ parse = NoParse
        /\ inner = NoInner
        /\ held = NoHeld

\* respond_vote calls respond and returns what respond returns
DefaultRespondVote ==
    /\ pc = "vote:call"
    /\ \E reply \in ParseInputs \cup Replies :
        /\ inner' = [inner EXCEPT
                       !.requests = <<RespondCall(calls[1].messages, calls[1].actor_id)>>,
                       !.answers = <<PyStr(reply)>>]
        /\ response_text' = reply
    /\ pc' = "vote:returned"
    /\ UNCHANGED <<num_turns, participants, human_actor_id, conversation, turn, idx,
                   yielded, calls, votes, vote_counts, result, exc, parse, held>>

\* respond raises, and so does respond_vote
DefaultRespondVoteFails ==
    /\ pc = "vote:call"
    /\ inner' = [inner EXCEPT
                   !.requests = <<RespondCall(calls[1].messages, calls[1].actor_id)>>]
    /\ pc' = "raised"
    /\ exc' = "ProviderError"
    /\ UNCHANGED <<num_turns, participants, human_actor_id, conversation, turn, idx,
                   response_text, yielded, calls, votes, vote_counts, result, parse, held>>

DefaultVoteNext ==
    \/ DefaultRespondVote
    \/ DefaultRespondVoteFails

DefaultVoteSpec == DefaultVoteInit /\ [][DefaultVoteNext]_vars

\* C16: the default respond_vote makes exactly one call of respond, with
\* the messages and the label it was given, and returns what that call
\* returned, unchanged
C16_DefaultVoteIsRespond ==
    pc = "vote:returned" =>
        /\ Len(inner.requests) = 1
        /\ inner.requests[1].fn = "respond"
        /\ inner.requests[1].messages = calls[1].messages
        /\ inner.requests[1].actor_id = calls[1].actor_id
        /\ Len(inner.answers) = 1
        /\ PyStr(response_text) = inner.answers[1]

C16_Witness ==
    /\ pc = "vote:returned"
    /\ Len(inner.requests) = 1
    /\ Len(inner.requests[1].messages) = 3
    /\ inner.requests[1].actor_id = ActorId(2)
    /\ response_text = <<" ", "5", "\n">>

\* what a reply adds to the transcript: nothing when blank, else the
\* speaker's message
ReplyAdds(reply, actor_id) ==
    IF Blank(reply) THEN <<>> ELSE <<Message("assistant", reply, actor_id)>>

\* later is earlier, or earlier and one non-blank message of the speaker
OneReplyOn(earlier, later, speaker) ==
    \/ later = earlier
    \/ /\ Len(later) = Len(earlier) + 1
       /\ SubSeq(later, 1, Len(earlier)) = earlier
       /\ later[Len(later)].actor_id = speaker
       /\ later[Len(later)].role = "assistant"
       /\ ~Blank(later[Len(later)].content)

\* C17: respond calls go round the participants in construction order; the
\* first is given the two opening messages, each call is given the
\* transcript as it stands, and each reply extends the transcript by the
\* speaker's message when it is not blank, so that the k-th call sees the
\* non-blank replies of calls 1..k-1 in call order under their labels
C17_SequentialCalls ==
    /\ [](\A k \in 1..Len(calls) :
            calls[k].fn = "respond" =>
                /\ calls[k].who = ((k - 1) % Len(participants)) + 1
                /\ calls[k].actor_id = participants[calls[k].who].actor_id
                /\ k = 1 => calls[k].messages
                              = <<_system_message(Topic), _initial_message(Topic)>>
                /\ k > 1 => /\ calls[k - 1].fn = "respond"
                            /\ OneReplyOn(calls[k - 1].messages, calls[k].messages,
                                          calls[k - 1].actor_id))
    /\ [][pc = "conversation" =>
            /\ Len(calls') = Len(calls) + 1
            /\ calls'[Len(calls')].fn = "respond"
            /\ calls'[Len(calls')].messages = conversation
            /\ pc' # "raised" =>
                  conversation' = conversation
                      \o ReplyAdds(response_text', calls'[Len(calls')].actor_id)]_vars

C17_Witness ==
    /\ ConversationConsumed
    /\ Len(participants) = 3
    /\ Len(calls) >= 3
    /\ calls[3].fn = "respond"
    /\ calls[3].who = 3
    /\ Len(calls[3].messages) = 3
    /\ calls[3].messages[3].actor_id = ActorId(2)

Sentinels == {PyStr(UnknownText), PyStr(ParseErrorText)}

\* C18: a sentinel is counted like a label: every voted value, sentinels
\* included, has its number of votes in the tally, and when a sentinel
\* leads (most votes, first voted among equals) human_caught is false
C18_SentinelsCounted ==
    result.returned =>
        /\ \A i \in 1..Len(votes) :
              \E j \in 1..Len(vote_counts) :
                  /\ vote_counts[j].key = votes[i].voted_for
                  /\ vote_counts[j].n = Cardinality(VotesFor(votes[i].voted_for))
        /\ \A sentinel \in Sentinels : Leads(sentinel) => ~result.human_caught

C18_Witness ==
    /\ result.returned
    /\ Leads(PyStr(UnknownText))
    /\ Cardinality(VotesFor(PyStr(human_actor_id)))
         = Cardinality(VotesFor(PyStr(UnknownText)))
    /\ VotesFor(PyStr(ParseErrorText)) # {}
    /\ ~result.human_caught

\* the response is one code block holding a well-formed JSON object, alone
\* or after prose that names Actor 3
FencedObject ==
    /\ parse.body.shape = "object"
    /\ parse.wrapping \in {"json fence", "plain fence", "py fence", "prose and fence"}

\* C19 as stated: the vote of a response with a fenced JSON object is the
\* vote of that object (Unknown when it has none), whatever the prose says
C19_FencedObjectDecides ==
    (ParseOver /\ FencedObject) =>
        /\ parse.out.kind = "return"
        /\ parse.out.vote.voted_for
             = DictGet(parse.body.members, VoteWord, PyStr(UnknownText))

\* "vote": "Actor i" occurs in the text, with or without the space
HasVoteFragment(text, i) ==
    \/ Contains(text, VoteKey \o <<":", " ">> \o Quoted(ActorId(i)))
    \/ Contains(text, VoteKey \o <<":">> \o Quoted(ActorId(i)))

\* the labels 1..3 that the text names in a vote fragment
FragmentLabels(text) == {i \in 1..3 : HasVoteFragment(text, i)}

\* what C20 asks of the outcome when the working text, taken out of a code
\* block, is no JSON and the response holds vote fragments
FragmentOf(data, labels, out) ==
    (~data.ok /\ labels # {}) =>
        /\ out.kind = "return"
        /\ \E i \in labels : out.vote.voted_for = PyStr(ActorId(i))

\* C20 as stated: when the content of a code block has replaced the
\* response as working text and is no JSON, a vote fragment anywhere in
\* the original response still gives voted_for = that Actor N
C20_FragmentFromOriginal ==
    (ParseOver /\ parse.text # Strip(parse.response)) =>
        FragmentOf(JsonLoads(parse.text), FragmentLabels(parse.response), parse.out)

\* the topic announcement: a user message of "System" that holds the topic
TopicAnnouncement(msg) ==
    /\ msg.role = "user"
    /\ msg.actor_id = <<"System">>
    /\ msg.content = <<"The topic is: ">> \o Topic \o <<". Share your thoughts.">>

\* a reply of one of the participants
ParticipantReply(msg) ==
    /\ msg.role = "assistant"
    /\ \E i \in 1..Len(participants) : msg.actor_id = participants[i].actor_id
    /\ ~Blank(msg.content)

\* C21: run_conversation yields the topic announcement first, at a moment
\* when no provider has been called; whatever it yields later is the reply
\* of the participant just asked
C21_TopicYieldedFirst ==
    /\ [](yielded = <<>> => calls = <<>>)
    /\ [](yielded # <<>> => TopicAnnouncement(yielded[1]))
    /\ [](\A i \in 2..Len(yielded) : ParticipantReply(yielded[i]))
    /\ [][yielded' # yielded =>
            IF yielded = <<>>
            THEN Len(yielded') = 1 /\ calls' = <<>>
            ELSE /\ yielded' = Append(yielded,
                                     Message("assistant", response_text',
                                             calls'[Len(calls')].actor_id))
                 /\ Len(calls') = Len(calls) + 1]_vars

C21_Witness ==
    /\ ConversationConsumed
    /\ Len(yielded) >= 3
    /\ TopicAnnouncement(yielded[1])
    /\ yielded[2].actor_id = ActorId(1)
    /\ yielded[3].actor_id = ActorId(2)

(***************************************************************************)
(* One game played again and again: the caller keeps the GameResult of     *)
(* the first play and calls play on the same ImitationGame once more.      *)
(***************************************************************************)
ReplayInit ==
    \E nt \in 0..MaxTurns : Constructed(<<"bot">>, "human", nt)

\* play(topic) is called on a game whose play has returned: a new call
\* with new locals; self.conversation is still the list of the last play
PlayAgain ==
    /\ pc = "done"
    /\ pc' = "new"
    /\ turn' = 0
    /\ idx' = 1
    /\ response_text' = <<>>
    /\ yielded' = <<>>
    /\ calls' = <<>>
    /\ votes' = <<>>
    /\ vote_counts' = <<>>
    /\ result' = NoResult
    /\ UNCHANGED <<num_turns, participants, human_actor_id, conversation, exc, parse,
                   inner, held>>

\* the caller has driven run_conversation itself so far; it leaves the
\* generator at its last yield and calls play(topic)
PlayAside ==
    /\ pc = "conversation"
    /\ ~held.generator.live
    /\ ~held.result.returned
    /\ held' = [held EXCEPT !.generator = [live |-> TRUE, turn |-> turn, idx |-> idx]]
    /\ pc' = "new"
    /\ turn' = 0
    /\ idx' = 1
    /\ response_text' = <<>>
    /\ yielded' = <<>>
    /\ calls' = <<>>
    /\ UNCHANGED <<num_turns, participants, human_actor_id, conversation, votes,
                   vote_counts, result, exc, parse, inner>>

\* where the loops of a generator stand after the pass at (turn, idx)
LoopsOn(g) ==
    [live |-> ~(g.idx = Len(participants) /\ g.turn + 1 >= num_turns),
     turn |-> IF g.idx = Len(participants) THEN g.turn + 1 ELSE g.turn,
     idx |-> IF g.idx = Len(participants) THEN 1 ELSE g.idx + 1]

\* the list self.conversation names after a pass of the loop body
Said(conv, reply, actor_id) ==
    IF IsEmptyReply(reply) THEN conv
    ELSE AppendMessage(conv, Message("assistant", reply, actor_id))

\* play has returned and the caller goes on with the generator it left:
\* one pass of the inner loop, on the list self.conversation names now,
\* which is the list of the GameResult just returned
ResumeGenerator ==
    /\ pc = "done"
    /\ held.generator.live
    /\ \E reply \in Replies :
        /\ calls' = Append(calls, Call("respond", held.generator.idx, conversation))
        /\ response_text' = reply
        /\ conversation' = Said(conversation, reply,
                                participants[held.generator.idx].actor_id)
        /\ result' = [result EXCEPT !.conversation =
                         Said(conversation, reply,
                              participants[held.generator.idx].actor_id)]
        /\ held' = Through([held EXCEPT !.generator = LoopsOn(held.generator)],
                           Said(conversation, reply,
                                participants[held.generator.idx].actor_id))
    /\ UNCHANGED <<num_turns, participants, human_actor_id, pc, turn, idx, yielded,
                   votes, vote_counts, exc, parse, inner>>

ReplayNext ==
    \/ PlayAside
    \/ ResumeGenerator
    \/ StartConversation
    \/ Respond
    \/ SkipHuman
    \/ CastVote
    \/ CountVote
    \/ Decide
    \/ PlayAgain

ReplaySpec == ReplayInit /\ [][ReplayNext]_vars

\* C22 as stated: once play has returned a GameResult, nothing the game
\* does later changes its votes or its conversation
C22_ResultIsSnapshot ==
    [][held.result.returned =>
          /\ held'.result.votes = held.result.votes
          /\ held'.result.conversation = held.result.conversation]_vars

\* the transcript as the conversation phase left it: the system message
\* and what run_conversation yielded
TranscriptAtEnd == <<_system_message(Topic)>> \o yielded

\* C23: run_voting and the tally leave the transcript alone; every voter is
\* given exactly the transcript of the end of the conversation and the one
\* vote instruction after it, so all voters are given the same messages and
\* none holds a voter's response; the GameResult carries that transcript
C23_VotingLeavesTranscript ==
    /\ [][(pc = "voting" \/ pc = "tally") => conversation' = conversation]_vars
    /\ [](pc \in {"voting", "tally", "done"} => conversation = TranscriptAtEnd)
    /\ [](\A k \in 1..Len(calls) :
            calls[k].fn = "respond_vote" =>
                /\ pc # "conversation"
                /\ calls[k].messages = TranscriptAtEnd \o <<VotePrompt(participants)>>)
    /\ [](result.returned => result.conversation = TranscriptAtEnd)

C23_Witness ==
    /\ result.returned
    /\ Len(result.votes) = 2
    /\ Len(result.conversation) >= 4
    /\ \E j, k \in 1..Len(calls) :
          /\ j < k
          /\ calls[j].fn = "respond_vote"
          /\ calls[k].fn = "respond_vote"
          /\ calls[j].actor_id # calls[k].actor_id

\* the providers list given to the constructor holds no human provider
\* object: the human provider is the provider of one participant only
OnlyAIProviders ==
    Cardinality({i \in 1..Len(participants) : participants[i].provider = "human"}) = 1

\* the label "Actor i"
LabelAt(i) == <<"A", "c", "t", "o", "r", " ">> \o Decimal(i)

\* C24: the i-th participant is labelled "Actor i"; when the providers list
\* holds k AI providers and not the human provider object, the human is
\* the last participant, "Actor k+1", and is asked last in every round;
\* labels are pairwise distinct, and no step of play changes a label
C24_LabelsByPosition ==
    /\ [](\A i \in 1..Len(participants) : participants[i].actor_id = LabelAt(i))
    /\ [](\A i, j \in 1..Len(participants) :
            i # j => participants[i].actor_id # participants[j].actor_id)
    /\ [](OnlyAIProviders =>
            /\ human_actor_id = LabelAt(Len(participants))
            /\ \A i \in 1..Len(participants) :
                  participants[i].is_human <=> i = Len(participants)
            /\ \A k \in 1..Len(calls) :
                  calls[k].fn = "respond" =>
                      (calls[k].actor_id = human_actor_id
                          <=> k % Len(participants) = 0))
    /\ [][participants' = participants /\ human_actor_id' = human_actor_id]_vars

C24_Witness ==
    /\ OnlyAIProviders
    /\ Len(participants) = 3
    /\ result.returned
    /\ Len(calls) >= 3
    /\ calls[3].fn = "respond"
    /\ calls[3].actor_id = human_actor_id
    /\ human_actor_id = <<"A", "c", "t", "o", "r", " ", "3">>

====
